---- MODULE Spec2Model ----
\* Red Specter ScriptMap (redspecter_scriptmap.py): the extraction and
\* classification pipeline, modelled on character sequences.  A Python str is
\* a sequence of one-character strings, Optional[str] is a record with a
\* `some` flag, and a raised exception is a control state.
EXTENDS Integers, Sequences, FiniteSets, TLC

VARIABLES pc, arg, res, lines, primary_domain, idx, entries

vars == <<pc, arg, res, lines, primary_domain, idx, entries>>

----------------------------------------------------------------------------
\* Bounds of the explored inputs.

\* longest src attribute value drawn for extract_url_from_line
MaxValLen == 2
\* longest input file (in lines) given to process_scripts
MaxLines == 2
\* longest --output-prefix given to main
MaxPrefixLen == 3
\* longest host and longest primary domain given to is_first_party
MaxHostLen == 3

MaxDomainLen == 2
\* most labels a host given to classify_script is assembled from
MaxHostParts == 2

----------------------------------------------------------------------------
\* Python str primitives.

SeqsUpTo(S, n) == UNION {[1..k -> S] : k \in 0..n}

None == [some |-> FALSE, val |-> <<>>]

Some(s) == [some |-> TRUE, val |-> s]

\* truthiness of an Optional[str]: None and "" are both falsy
Truthy(o) == o.some /\ o.val # <<>>

UpperAlpha == <<"A","B","C","D","E","F","G","H","I","J","K","L","M","N","O","P","Q","R","S","T","U","V","W","X","Y","Z">>

LowerAlpha == <<"a","b","c","d","e","f","g","h","i","j","k","l","m","n","o","p","q","r","s","t","u","v","w","x","y","z">>

\* str.lower() on the ASCII letters
UpperToLower ==
    [c \in {UpperAlpha[k] : k \in 1..26} |-> LowerAlpha[CHOOSE k \in 1..26 : UpperAlpha[k] = c]]

LowerChar(c) == IF c \in DOMAIN UpperToLower THEN UpperToLower[c] ELSE c

Lower(s) == [k \in 1..Len(s) |-> LowerChar(s[k])]

\* the characters str.strip() removes (the ones a TLA+ string can spell)
Whitespace == {" ", "\t", "\n", "\r", "\f"}

RECURSIVE LStripChars(_, _)
\* str.lstrip(cs)
LStripChars(s, cs) ==
    IF s # <<>> /\ Head(s) \in cs THEN LStripChars(Tail(s), cs) ELSE s

RECURSIVE RStripChars(_, _)
\* str.rstrip(cs)
RStripChars(s, cs) ==
    IF s # <<>> /\ s[Len(s)] \in cs THEN RStripChars(SubSeq(s, 1, Len(s) - 1), cs) ELSE s

Strip(s) == RStripChars(LStripChars(s, Whitespace), Whitespace)

StartsWith(s, p) == Len(p) <= Len(s) /\ SubSeq(s, 1, Len(p)) = p

EndsWith(s, p) == Len(p) <= Len(s) /\ SubSeq(s, Len(s) - Len(p) + 1, Len(s)) = p

OccursAt(s, p, k) ==
    /\ k >= 1
    /\ k + Len(p) - 1 <= Len(s)
    /\ \A j \in 1..Len(p) : s[k + j - 1] = p[j]

RECURSIVE Find(_, _, _)
\* str.find from position `start` (1-based); 0 when absent
Find(s, p, start) ==
    IF start + Len(p) - 1 > Len(s) THEN 0
    ELSE IF OccursAt(s, p, start) THEN start
    ELSE Find(s, p, start + 1)

\* the `in` operator on strings
Contains(s, p) == Find(s, p, 1) # 0

----------------------------------------------------------------------------
\* SCRIPT_SRC_RE = re.compile(r'src=["\']([^"\']+)["\']', re.IGNORECASE)

Quotes == {"\"", "'"}

RECURSIVE RunEnd(_, _)
\* end of the greedy run [^"']+ started at k: the first quote at or after k,
\* Len(s) + 1 when there is none
RunEnd(s, k) ==
    IF k > Len(s) THEN Len(s) + 1
    ELSE IF s[k] \in Quotes THEN k
    ELSE RunEnd(s, k + 1)

\* the pattern matches with its first character at position p
SrcMatchAt(s, p) ==
    /\ p + 4 <= Len(s)
    /\ \A j \in 1..4 : LowerChar(s[p + j - 1]) = <<"s","r","c","=">>[j]
    /\ s[p + 4] \in Quotes
    /\ RunEnd(s, p + 5) > p + 5
    /\ RunEnd(s, p + 5) <= Len(s)

RECURSIVE SearchFrom(_, _)
SearchFrom(s, p) ==
    IF p > Len(s) THEN [matched |-> FALSE, group1 |-> <<>>]
    ELSE IF SrcMatchAt(s, p)
         THEN [matched |-> TRUE, group1 |-> SubSeq(s, p + 5, RunEnd(s, p + 5) - 1)]
    ELSE SearchFrom(s, p + 1)

\* SCRIPT_SRC_RE.search(line): the leftmost match, with group(1)
SCRIPT_SRC_RE(s) == SearchFrom(s, 1)

UrlPrefixes == {<<"h","t","t","p",":","/","/">>, <<"h","t","t","p","s",":","/","/">>, <<"/","/">>}

\* a faulty extractor that returns the line as it was given, untrimmed
extract_url_from_line_untrimmed(line0) ==
    LET line == Strip(line0)
        m == SCRIPT_SRC_RE(line)
    IN  IF line = <<>> THEN None
        ELSE IF Contains(Lower(line), <<"<","s","c","r","i","p","t">>) /\ m.matched THEN Some(Strip(m.group1))
        ELSE IF \E p \in UrlPrefixes : StartsWith(line, p) THEN Some(line0)
        ELSE None

extract_url_from_line(line0) ==
    LET line == Strip(line0)
        m == SCRIPT_SRC_RE(line)
    IN  IF line = <<>> THEN None
        ELSE IF Contains(Lower(line), <<"<","s","c","r","i","p","t">>) /\ m.matched THEN Some(Strip(m.group1))
        ELSE IF \E p \in UrlPrefixes : StartsWith(line, p) THEN Some(line)
        ELSE None

----------------------------------------------------------------------------
\* urllib.parse.urlparse, as normalize_url uses it (ASCII input).

Letters == {UpperAlpha[k] : k \in 1..26} \cup {LowerAlpha[k] : k \in 1..26}

Digits == {"0", "1", "2", "3", "4", "5", "6", "7", "8", "9"}

\* scheme_chars
SchemeChars == Letters \cup Digits \cup {"+", "-", "."}

\* _UNSAFE_URL_BYTES_TO_REMOVE
UnsafeUrlBytes == {"\t", "\r", "\n"}

\* uses_params
UsesParams ==
    {<<>>, <<"f","t","p">>, <<"h","d","l">>, <<"p","r","o","s","p","e","r","o">>, <<"h","t","t","p">>, <<"i","m","a","p">>, <<"h","t","t","p","s">>, <<"s","h","t","t","p">>,
     <<"r","t","s","p">>, <<"r","t","s","p","u">>, <<"s","i","p">>, <<"s","i","p","s">>, <<"m","m","s">>, <<"s","f","t","p">>, <<"t","e","l">>}

Without(s, cs) == SelectSeq(s, LAMBDA c : c \notin cs)

HasChar(s, c) == \E k \in 1..Len(s) : s[k] = c

RECURSIVE FirstOf(_, _, _)
\* position of the first character of s, at or after start, that is in cs;
\* Len(s) + 1 when there is none
FirstOf(s, cs, start) ==
    IF start > Len(s) THEN Len(s) + 1
    ELSE IF s[start] \in cs THEN start
    ELSE FirstOf(s, cs, start + 1)

RECURSIVE LastOfFrom(_, _, _)
LastOfFrom(s, c, k) ==
    IF k = 0 THEN 0 ELSE IF s[k] = c THEN k ELSE LastOfFrom(s, c, k - 1)

\* position (rfind) of the last c in s, 0 when there is none
LastOf(s, c) == LastOfFrom(s, c, Len(s))

\* the scheme split of urlsplit: <<scheme, rest>>
SplitScheme(url) ==
    LET i == FirstOf(url, {":"}, 1)
    IN  IF /\ i <= Len(url)
           /\ i > 1
           /\ url[1] \in Letters
           /\ \A k \in 1..(i - 1) : url[k] \in SchemeChars
        THEN <<Lower(SubSeq(url, 1, i - 1)), SubSeq(url, i + 1, Len(url))>>
        ELSE <<<<>>, url>>

\* _splitnetloc(url, 2): <<netloc, rest>>
SplitNetloc(url) ==
    LET delim == FirstOf(url, {"/", "?", "#"}, 3)
    IN  <<SubSeq(url, 3, delim - 1), SubSeq(url, delim, Len(url))>>

\* _splitparams: the path without its ;params
SplitParams(url) ==
    IF HasChar(url, "/")
    THEN LET i == FirstOf(url, {";"}, LastOf(url, "/"))
         IN  IF i > Len(url) THEN url ELSE SubSeq(url, 1, i - 1)
    ELSE SubSeq(url, 1, FirstOf(url, {";"}, 1) - 1)

\* urlparse(url): scheme, netloc and path, or a ValueError.  A netloc with
\* one bracket and not the other raises "Invalid IPv6 URL"; with both, the
\* verdict of _check_bracketed_host is given by bracketed_ok.
urlparse(url0, bracketed_ok) ==
    LET url1 == Without(LStripChars(url0, Whitespace), UnsafeUrlBytes)
        ss == SplitScheme(url1)
        scheme == ss[1]
        hasNetloc == StartsWith(ss[2], <<"/","/">>)
        nl == IF hasNetloc THEN SplitNetloc(ss[2]) ELSE <<<<>>, ss[2]>>
        netloc == nl[1]
        noFragment == SubSeq(nl[2], 1, FirstOf(nl[2], {"#"}, 1) - 1)
        noQuery == SubSeq(noFragment, 1, FirstOf(noFragment, {"?"}, 1) - 1)
        path == IF scheme \in UsesParams /\ HasChar(noQuery, ";")
                THEN SplitParams(noQuery)
                ELSE noQuery
        open == HasChar(netloc, "[")
        close == HasChar(netloc, "]")
    IN  [raises |-> (open # close) \/ (open /\ close /\ ~bracketed_ok),
         scheme |-> scheme, netloc |-> netloc, path |-> path]

\* a netloc carrying both brackets: the only case bracketed_ok decides
BracketedOutcomes(url) ==
    IF HasChar(url, "[") /\ HasChar(url, "]") THEN BOOLEAN ELSE {TRUE}

normalize_url(url0, bracketed_ok) ==
    LET url == IF StartsWith(url0, <<"/","/">>) THEN <<"h","t","t","p","s",":">> \o url0 ELSE url0
        parsed == urlparse(url, bracketed_ok)
    IN  [raises |-> parsed.raises,
         scheme |-> Lower(parsed.scheme),
         host |-> Lower(parsed.netloc),
         path |-> IF parsed.path = <<>> THEN <<"/">> ELSE parsed.path]

----------------------------------------------------------------------------
\* is_first_party

\* a faulty suffix test that forgets the separating dot
is_first_party_nodot(host0, primary_domain0) ==
    IF host0 = <<>> \/ primary_domain0 = <<>> THEN FALSE
    ELSE LET pd == LStripChars(Lower(primary_domain0), {"."})
             host == Lower(host0)
         IN  host = pd \/ EndsWith(host, pd)

is_first_party(host0, primary_domain0) ==
    IF host0 = <<>> \/ primary_domain0 = <<>> THEN FALSE
    ELSE LET pd == LStripChars(Lower(primary_domain0), {"."})
             host == Lower(host0)
         IN  host = pd \/ EndsWith(host, <<".">> \o pd)

----------------------------------------------------------------------------
\* CATEGORY_RULES, in declaration order, and classify_script

analytics ==
    << <<"g","o","o","g","l","e","-","a","n","a","l","y","t","i","c","s",".","c","o","m">>, <<"a","n","a","l","y","t","i","c","s",".","g","o","o","g","l","e",".","c","o","m">>, <<"g","o","o","g","l","e","t","a","g","m","a","n","a","g","e","r",".","c","o","m">>,
       <<"g","t","a","g","/","j","s">>, <<"s","e","g","m","e","n","t",".","i","o">>, <<"m","i","x","p","a","n","e","l",".","c","o","m">>, <<"m","a","t","o","m","o">>, <<"p","l","a","u","s","i","b","l","e",".","i","o">>,
       <<"s","n","o","w","p","l","o","w">> >>

ads ==
    << <<"d","o","u","b","l","e","c","l","i","c","k",".","n","e","t">>, <<"g","o","o","g","l","e","s","y","n","d","i","c","a","t","i","o","n",".","c","o","m">>, <<"a","d","s","e","r","v","i","c","e",".","g","o","o","g","l","e",".","c","o","m">>,
       <<"a","d","s","y","s","t","e","m",".","c","o","m">>, <<"a","d","n","x","s",".","c","o","m">>, <<"t","a","b","o","o","l","a">>, <<"o","u","t","b","r","a","i","n">> >>

cdn_library ==
    << <<"c","d","n",".">>, <<"c","d","n","j","s">>, <<"j","s","d","e","l","i","v","r">>, <<"c","l","o","u","d","f","l","a","r","e",".","c","o","m">>, <<"u","n","p","k","g",".","c","o","m">>, <<"s","t","a","t","i","c",".">>,
       <<"a","j","a","x",".","g","o","o","g","l","e","a","p","i","s",".","c","o","m">>, <<"c","o","d","e",".","j","q","u","e","r","y",".","c","o","m">>, <<"b","o","o","t","s","t","r","a","p">> >>

payment ==
    << <<"j","s",".","s","t","r","i","p","e",".","c","o","m">>, <<"s","t","r","i","p","e",".","c","o","m">>, <<"p","a","y","p","a","l","o","b","j","e","c","t","s",".","c","o","m">>,
       <<"b","r","a","i","n","t","r","e","e","p","a","y","m","e","n","t","s",".","c","o","m">>, <<"c","h","e","c","k","o","u","t",".">> >>

social ==
    << <<"c","o","n","n","e","c","t",".","f","a","c","e","b","o","o","k",".","n","e","t">>, <<"f","a","c","e","b","o","o","k",".","c","o","m">>, <<"p","l","a","t","f","o","r","m",".","t","w","i","t","t","e","r",".","c","o","m">>,
       <<"t","w","i","t","t","e","r",".","c","o","m","/","w","i","d","g","e","t","s">>, <<"l","i","n","k","e","d","i","n",".","c","o","m">>, <<"s","n","a","p",".">> >>

monitoring ==
    << <<"s","e","n","t","r","y",".","i","o">>, <<"b","u","g","s","n","a","g">>, <<"d","a","t","a","d","o","g","h","q",".","c","o","m">>, <<"n","e","w","r","e","l","i","c">>, <<"r","o","l","l","b","a","r">>,
       <<"l","o","g","r","o","c","k","e","t">> >>

maps ==
    << <<"m","a","p","s",".","g","o","o","g","l","e","a","p","i","s",".","c","o","m">>, <<"m","a","p","b","o","x",".","c","o","m">>, <<"l","e","a","f","l","e","t">>, <<"o","p","e","n","s","t","r","e","e","t","m","a","p">> >>

\* a table that declares payment ahead of cdn/library
CATEGORY_RULES_reordered ==
    << [cat |-> "analytics", patterns |-> analytics],
       [cat |-> "ads", patterns |-> ads],
       [cat |-> "payment", patterns |-> payment],
       [cat |-> "cdn/library", patterns |-> cdn_library],
       [cat |-> "social", patterns |-> social],
       [cat |-> "monitoring", patterns |-> monitoring],
       [cat |-> "maps", patterns |-> maps] >>

CATEGORY_RULES ==
    << [cat |-> "analytics", patterns |-> analytics],
       [cat |-> "ads", patterns |-> ads],
       [cat |-> "cdn/library", patterns |-> cdn_library],
       [cat |-> "payment", patterns |-> payment],
       [cat |-> "social", patterns |-> social],
       [cat |-> "monitoring", patterns |-> monitoring],
       [cat |-> "maps", patterns |-> maps] >>

WidgetNote == "Widget-style script (embedded component)"

TrackingNote == "Tracking-related identifier in URL"

\* the dash of the source text is written "-" here
BundleNote == "Large JS bundle - may include multiple libraries"

NoHostNote == "No host component detected"

\* the heuristic pass over the lower-cased host + path
HeuristicNotes(combined) ==
    (IF Contains(combined, <<"w","i","d","g","e","t">>) THEN <<WidgetNote>> ELSE <<>>)
    \o (IF Contains(combined, <<"t","r","a","c","k","e","r">>) \/ Contains(combined, <<"t","r","a","c","k">>)
        THEN <<TrackingNote>> ELSE <<>>)
    \o (IF Contains(combined, <<"b","u","n","d","l","e">>) \/ Contains(combined, <<"v","e","n","d","o","r">>)
        THEN <<BundleNote>> ELSE <<>>)

RECURSIVE ScanPatterns(_, _, _)
\* the inner loop: index of the first pattern found in combined, 0 if none
ScanPatterns(patterns, k, combined) ==
    IF k > Len(patterns) THEN 0
    ELSE IF Contains(combined, Lower(patterns[k])) THEN k
    ELSE ScanPatterns(patterns, k + 1, combined)

RECURSIVE ScanCategories(_, _)
\* the outer loop over CATEGORY_RULES.items(), then the generic fallback
ScanCategories(c, combined) ==
    IF c > Len(CATEGORY_RULES)
    THEN [category |-> "generic", subcategory |-> <<>>, notes |-> HeuristicNotes(combined)]
    ELSE LET k == ScanPatterns(CATEGORY_RULES[c].patterns, 1, combined)
         IN  IF k # 0
             THEN [category |-> CATEGORY_RULES[c].cat,
                   subcategory |-> CATEGORY_RULES[c].patterns[k],
                   notes |-> <<>>]
             ELSE ScanCategories(c + 1, combined)

classify_script(host, path) == ScanCategories(1, Lower(host) \o Lower(path))

----------------------------------------------------------------------------
\* process_scripts: one loop iteration per step over the lines of the input.

CommentMarkers_hash_only == {<<"#">>, <<"<","!","-","-">>}

CommentMarkers == {<<"#">>, <<"/","/">>, <<"<","!","-","-">>}

IsComment(raw) == \E m \in CommentMarkers : StartsWith(raw, m)

\* read_input_lines: each line without its trailing newlines
read_input_line(line) == RStripChars(line, {"\n"})

\* a faulty orchestrator that puts the host note first
WithHostNote_first(host, notes) ==
    IF host = <<>> THEN <<NoHostNote>> \o notes ELSE notes

\* if not host: notes.append("No host component detected")
WithHostNote(host, notes) ==
    IF host = <<>> THEN Append(notes, NoHostNote) ELSE notes

\* the ScriptEntry built from a line that survived the two `continue`s
ScriptEntry(raw, url, n, primary) ==
    LET c == classify_script(n.host, n.path)
    IN  [raw |-> raw, url |-> url, scheme |-> n.scheme, host |-> n.host,
         path |-> n.path, category |-> c.category, subcategory |-> c.subcategory,
         first_party |-> is_first_party(n.host, primary),
         notes |-> WithHostNote(n.host, c.notes)]

\* the trimmed line the next iteration works on
CurrentRaw == Strip(read_input_line(lines[idx + 1]))

\* the line is passed over by one of the two `continue`s
Skipped(raw) == raw = <<>> \/ IsComment(raw) \/ ~Truthy(extract_url_from_line(raw))

SkipLine ==
    /\ pc = "loop"
    /\ idx < Len(lines)
    /\ Skipped(CurrentRaw)
    /\ idx' = idx + 1
    /\ UNCHANGED <<pc, arg, res, lines, primary_domain, entries>>

AppendEntry ==
    /\ pc = "loop"
    /\ idx < Len(lines)
    /\ ~Skipped(CurrentRaw)
    /\ LET url == extract_url_from_line(CurrentRaw).val
       IN  \E ok \in BracketedOutcomes(url) :
             LET n == normalize_url(url, ok)
             IN  /\ ~n.raises
                 /\ entries' = Append(entries, ScriptEntry(CurrentRaw, url, n, primary_domain))
    /\ idx' = idx + 1
    /\ UNCHANGED <<pc, arg, res, lines, primary_domain>>

\* urlparse raises inside normalize_url and nothing catches it
RaiseValueError ==
    /\ pc = "loop"
    /\ idx < Len(lines)
    /\ ~Skipped(CurrentRaw)
    /\ LET url == extract_url_from_line(CurrentRaw).val
       IN  \E ok \in BracketedOutcomes(url) : normalize_url(url, ok).raises
    /\ idx' = idx + 1
    /\ pc' = "raised"
    /\ UNCHANGED <<arg, res, lines, primary_domain, entries>>

Return ==
    /\ pc = "loop"
    /\ idx = Len(lines)
    /\ pc' = "returned"
    /\ UNCHANGED <<arg, res, lines, primary_domain, idx, entries>>

\* the lines an input file is drawn from: blank, comments, a bare host, bare
\* URLs (one with trailing blanks, one with no path, one with query and
\* fragment, one without host, one with an unclosed bracket) and script tags
InputLines ==
    { <<" "," ">>,
      <<"#"," ","h","t","t","p","s",":","/","/","a",".","c","o","m","/","x",".","j","s">>,
      <<"<","!","-","-"," ","<","s","c","r","i","p","t"," ","s","r","c","=","\"","h","t","t","p","s",":","/","/","a",".","c","o","m","/","x",".","j","s","\"",">"," ","-","-",">">>,
      <<"/","/","c","d","n",".","a",".","c","o","m","/","l","i","b",".","j","s">>,
      <<"a",".","c","o","m","/","a","p","p",".","j","s">>,
      <<"h","t","t","p","s",":","/","/","c","d","n",".","a",".","c","o","m","/","l","i","b",".","j","s"," ">>,
      <<"h","t","t","p","s",":","/","/","S","h","o","p",".","A",".","c","o","m">>,
      <<"h","t","t","p","s",":","/","/","b",".","i","o","/","j","s","/","v","e","n","d","o","r",".","j","s","?","v","=","1","#","t","o","p">>,
      <<"h","t","t","p",":","/","/","/","t","r","a","c","k","e","r",".","j","s">>,
      <<"h","t","t","p",":","/","/","[","a",".","c","o","m","/","x",".","j","s">>,
      <<"<","s","c","r","i","p","t"," ","s","r","c","=","\"","/","/","b",".","i","o","/","w","i","d","g","e","t",".","j","s","\"",">","<","/","s","c","r","i","p","t",">">>,
      <<"<","S","C","R","I","P","T"," ","S","R","C","=","'","/","j","s","/","T","r","a","c","k","e","r",".","b","u","n","d","l","e",".","j","s","'",">">>,
      <<"<","s","c","r","i","p","t"," ","s","r","c","=","\""," ","\"",">","<","/","s","c","r","i","p","t",">">> }

PrimaryDomains == {<<>>, <<"a",".","c","o","m">>, <<".","A",".","c","o","m">>}

Init ==
    /\ pc = "loop"
    /\ lines \in SeqsUpTo(InputLines, MaxLines)
    /\ primary_domain \in PrimaryDomains
    /\ idx = 0
    /\ entries = <<>>
    /\ arg = <<>>
    /\ res = None

Next == SkipLine \/ AppendEntry \/ RaiseValueError \/ Return

Spec == Init /\ [][Next]_vars

----------------------------------------------------------------------------
\* main: the report file names derived from --output-prefix.

\* base = args.output_prefix.rstrip(".md")
BaseName(output_prefix) == RStripChars(output_prefix, {".", "m", "d"})

PrefixChars == {"a", ".", "m", "d"}

InitMain ==
    /\ pc = "call"
    /\ arg \in SeqsUpTo(PrefixChars, MaxPrefixLen)
    /\ res = None
    /\ lines = <<>>
    /\ primary_domain = <<>>
    /\ idx = 0
    /\ entries = <<>>

\* write_file(f"{base}_summary.md", ...); write_file(f"{base}_inventory.md", ...)
WriteReports ==
    /\ pc = "call"
    /\ res' = [summary |-> BaseName(arg) \o <<"_","s","u","m","m","a","r","y",".","m","d">>,
               inventory |-> BaseName(arg) \o <<"_","i","n","v","e","n","t","o","r","y",".","m","d">>]
    /\ pc' = "done"
    /\ UNCHANGED <<arg, lines, primary_domain, idx, entries>>

NextMain == WriteReports

SpecMain == InitMain /\ [][NextMain]_vars

----------------------------------------------------------------------------
\* is_first_party applied to hosts and primary domains drawn letter by letter.

HostChars == {"a", "b", "A", "."}

DomainChars == {"a", "A", "."}

InitParty ==
    /\ pc = "call"
    /\ arg \in [host : SeqsUpTo(HostChars, MaxHostLen),
                primary_domain : SeqsUpTo(DomainChars, MaxDomainLen)]
    /\ res = FALSE
    /\ lines = <<>>
    /\ primary_domain = <<>>
    /\ idx = 0
    /\ entries = <<>>

CallIsFirstParty ==
    /\ pc = "call"
    /\ res' = is_first_party(arg.host, arg.primary_domain)
    /\ pc' = "done"
    /\ UNCHANGED <<arg, lines, primary_domain, idx, entries>>

NextParty == CallIsFirstParty

SpecParty == InitParty /\ [][NextParty]_vars

----------------------------------------------------------------------------
\* classify_script applied to hosts assembled from labels and to paths.

HostLabels ==
    { <<"c","d","n",".">>, <<"s","t","a","t","i","c",".">>, <<"j","s",".">>, <<"s","t","r","i","p","e",".","c","o","m">>, <<"G","o","o","g","l","e","-","A","n","a","l","y","t","i","c","s",".","c","o","m">>,
      <<"m","a","p","s",".","g","o","o","g","l","e","a","p","i","s",".","c","o","m">>, <<"b",".","i","o">>, <<"t","r","a","c","k">> }

Paths == {<<"/">>, <<"/","g","t","a","g","/","j","s">>, <<"/","l","i","b",".","j","s">>, <<"/","W","i","d","g","e","t","/","V","e","n","d","o","r",".","j","s">>, <<"/","l","e","a","f","l","e","t",".","j","s">>}

RECURSIVE Flatten(_)
Flatten(ss) == IF ss = <<>> THEN <<>> ELSE Head(ss) \o Flatten(Tail(ss))

Hosts == {Flatten(ls) : ls \in SeqsUpTo(HostLabels, MaxHostParts)}

InitClassify ==
    /\ pc = "call"
    /\ arg \in [host : Hosts, path : Paths]
    /\ res = None
    /\ lines = <<>>
    /\ primary_domain = <<>>
    /\ idx = 0
    /\ entries = <<>>

CallClassify ==
    /\ pc = "call"
    /\ res' = classify_script(arg.host, arg.path)
    /\ pc' = "done"
    /\ UNCHANGED <<arg, lines, primary_domain, idx, entries>>

NextClassify == CallClassify

SpecClassify == InitClassify /\ [][NextClassify]_vars

----------------------------------------------------------------------------
\* Inputs of extract_url_from_line: a line is assembled from a leading text,
\* an optional tag opener, an optional earlier attribute, an optional src
\* attribute with its two quote characters and its value, and a trailing text.

Leads == {<<>>, <<"h","t","t","p","s",":","/","/","a",".","c","o","m","/">>, <<"/","/","a",".","c","o","m","/">>, <<"x"," ">>, <<"#"," ">>}

Tags == {<<>>, <<"<","s","c","r","i","p","t">>, <<"<","S","C","R","I","P","T">>}

Earlier == {<<>>, <<" ","d","a","t","a","-","s","r","c","=","\"","b","\"">>, <<" ","i","d","=","'","i","'">>}

SrcNames == {<<" ","s","r","c","=">>, <<" ","S","R","C","=">>}

QuotePairs == {<<"\"", "\"">>, <<"'", "'">>, <<"\"", "'">>}

ValChars == {"a", "'", " "}

Tails == {<<>>, <<">"," ">>}

NoAttr == [present |-> FALSE, name |-> <<>>, q |-> <<"\"", "\"">>, val |-> <<>>]

SrcAttrs ==
    {NoAttr} \cup
    {[present |-> TRUE, name |-> n, q |-> q, val |-> v] :
        n \in SrcNames, q \in QuotePairs, v \in SeqsUpTo(ValChars, MaxValLen)}

AttrText(a) == IF a.present THEN a.name \o <<a.q[1]>> \o a.val \o <<a.q[2]>> ELSE <<>>

ExtractArgs ==
    [lead : Leads, tag : Tags, earlier : Earlier, attr : SrcAttrs, tail : Tails]

LineOf(a) == a.lead \o a.tag \o a.earlier \o AttrText(a.attr) \o a.tail

InitExtract ==
    /\ pc = "call"
    /\ arg \in ExtractArgs
    /\ res = None
    /\ lines = <<>>
    /\ primary_domain = <<>>
    /\ idx = 0
    /\ entries = <<>>

CallExtract ==
    /\ pc = "call"
    /\ res' = extract_url_from_line(LineOf(arg))
    /\ pc' = "done"
    /\ UNCHANGED <<arg, lines, primary_domain, idx, entries>>

NextExtract == CallExtract

SpecExtract == InitExtract /\ [][NextExtract]_vars

\* C6: a line whose trimmed form contains '<script' (any case) and has no
\* src="..." / src='...' attribute yields nothing, whatever it starts with.
C6_ScriptWithoutSrcYieldsNothing ==
    (pc = "done"
        /\ Contains(Lower(Strip(LineOf(arg))), <<"<","s","c","r","i","p","t">>)
        /\ ~arg.attr.present
        /\ ~SCRIPT_SRC_RE(Strip(LineOf(arg))).matched)
    => res = None

\* the line carries src="X" in double quotes, with X = a.attr.val
HasDoubleQuotedSrc(a) ==
    a.attr.present /\ a.attr.name = <<" ","s","r","c","=">> /\ a.attr.q = <<"\"", "\"">>

\* C7: a non-empty, non-comment line containing '<script' with a src="X"
\* attribute yields exactly X trimmed, also when X contains the other quote
\* character and when another attribute ending in src= precedes it (stated
\* here for the X that are not blank).
C7_SrcValueReturnedExactly ==
    (pc = "done"
        /\ ~IsComment(Strip(LineOf(arg)))
        /\ Contains(Lower(LineOf(arg)), <<"<","s","c","r","i","p","t">>)
        /\ HasDoubleQuotedSrc(arg)
        /\ Strip(arg.attr.val) # <<>>)
    => res = Some(Strip(arg.attr.val))

\* C8 as stated: a line starting with 'https://', 'http://' or '//' is
\* returned unchanged, regardless of what else it contains.
C8_UrlLineReturnedUnchanged ==
    (pc = "done" /\ \E p \in UrlPrefixes : StartsWith(LineOf(arg), p))
    => res = Some(LineOf(arg))

\* C8 as amended: a line whose trimmed form starts with 'https://', 'http://'
\* or '//' and contains no '<script' (any case) yields that trimmed form,
\* with a leading '//' left as it is.
C8_UrlLineWithoutTagReturnedTrimmed ==
    (pc = "done"
        /\ (\E p \in UrlPrefixes : StartsWith(Strip(LineOf(arg)), p))
        /\ ~Contains(Lower(Strip(LineOf(arg))), <<"<","s","c","r","i","p","t">>))
    => res = Some(Strip(LineOf(arg)))

\* a protocol-relative line with trailing blanks and no tag has been extracted
C8_Witness ==
    /\ pc = "done"
    /\ StartsWith(LineOf(arg), <<"/","/">>)
    /\ LineOf(arg) # Strip(LineOf(arg))
    /\ ~Contains(Lower(LineOf(arg)), <<"<","s","c","r","i","p","t">>)
    /\ res = Some(Strip(LineOf(arg)))

----------------------------------------------------------------------------
\* Properties of process_scripts (specification Spec).

RawsOf(es) == [k \in 1..Len(es) |-> es[k].raw]

\* the line is one the contract says yields no record
YieldsNoRecord(raw) ==
    \/ raw = <<>>
    \/ StartsWith(raw, <<"#">>) \/ StartsWith(raw, <<"/","/">>) \/ StartsWith(raw, <<"<","!","-","-">>)
    \/ ~Truthy(extract_url_from_line(raw))

RECURSIVE ExpectedRaws(_)
ExpectedRaws(ls) ==
    IF ls = <<>> THEN <<>>
    ELSE (IF YieldsNoRecord(Strip(Head(ls))) THEN <<>> ELSE <<Strip(Head(ls))>>)
         \o ExpectedRaws(Tail(ls))

\* C1: the records are the order-preserving image of the lines read so far:
\* blank, comment and non-extractable lines yield nothing, every other line
\* exactly one record whose raw is the trimmed line.
C1_RecordsAreOrderedImageOfLines ==
    RawsOf(entries) = ExpectedRaws(SubSeq(lines, 1, idx))

\* C2: no line content makes the pipeline fail: normalize_url never raises and
\* process_scripts returns only after it has processed every line.
C2_NoLineAbortsPipeline ==
    /\ pc # "raised"
    /\ pc = "returned" => idx = Len(lines)

\* the line yields a URL whose normalized host is empty
HostlessLine(l) ==
    LET raw == Strip(l)
        url == extract_url_from_line(raw).val
    IN  /\ ~YieldsNoRecord(raw)
        /\ \A ok \in BracketedOutcomes(url) :
              ~normalize_url(url, ok).raises /\ normalize_url(url, ok).host = <<>>

Count(s, P(_)) == Len(SelectSeq(s, P))

\* C5: every hostless URL read so far has its record; a record with an empty
\* host is third-party and ends its notes with 'No host component detected',
\* after the heuristic notes; no record with a host carries that note.
C5_HostlessRecordsKeptAndAnnotated ==
    /\ Count(entries, LAMBDA e : e.host = <<>>) = Count(SubSeq(lines, 1, idx), HostlessLine)
    /\ \A k \in 1..Len(entries) :
         LET e == entries[k]
             heuristics == SelectSeq(e.notes, LAMBDA n : n # NoHostNote)
         IN  IF e.host = <<>>
             THEN /\ ~e.first_party
                  /\ e.notes = Append(heuristics, NoHostNote)
             ELSE e.notes = heuristics

\* a hostless record that also carries a heuristic note has been produced
C5_Witness ==
    \E k \in 1..Len(entries) :
        /\ entries[k].host = <<>>
        /\ Len(entries[k].notes) >= 2
        /\ entries[k].notes[Len(entries[k].notes)] = NoHostNote

\* C10: no record has a raw line starting with '//'; a record whose url
\* starts with '//' has scheme 'https' and comes from the src attribute of a
\* '<script' line.
C10_NoBareProtocolRelativeRecord ==
    \A k \in 1..Len(entries) :
        LET e == entries[k] IN
        /\ ~StartsWith(e.raw, <<"/","/">>)
        /\ StartsWith(e.url, <<"/","/">>) =>
              /\ e.scheme = <<"h","t","t","p","s">>
              /\ Contains(Lower(e.raw), <<"<","s","c","r","i","p","t">>)
              /\ SCRIPT_SRC_RE(e.raw).matched
              /\ e.url = Strip(SCRIPT_SRC_RE(e.raw).group1)

\* a '//' line has been read and dropped, and a '//' src has been recorded
C10_Witness ==
    /\ \E j \in 1..idx : StartsWith(Strip(lines[j]), <<"/","/">>)
    /\ \E k \in 1..Len(entries) :
          StartsWith(entries[k].url, <<"/","/">>) /\ entries[k].scheme = <<"h","t","t","p","s">>

----------------------------------------------------------------------------
\* Properties of classify_script (specification SpecClassify).

C3_Order == <<"analytics", "ads", "cdn/library", "payment", "social", "monitoring", "maps">>

C3_Patterns == <<analytics, ads, cdn_library, payment, social, monitoring, maps>>

C3_Hit(c, k, combined) == Contains(combined, C3_Patterns[c][k])

C3_Before(c1, k1, c2, k2) == c1 < c2 \/ (c1 = c2 /\ k1 < k2)

C3_Note(n, combined) ==
    \/ n = WidgetNote /\ Contains(combined, <<"w","i","d","g","e","t">>)
    \/ n = TrackingNote /\ (Contains(combined, <<"t","r","a","c","k">>) \/ Contains(combined, <<"t","r","a","c","k","e","r">>))
    \/ n = BundleNote /\ (Contains(combined, <<"b","u","n","d","l","e">>) \/ Contains(combined, <<"v","e","n","d","o","r">>))

\* C3: the result names the first pattern, in declaration order of the
\* categories and of the patterns within each, that occurs in the lower-cased
\* host + path, with no notes; with no such pattern it is 'generic', with an
\* empty subcategory and the widget, tracking and bundle notes, each present
\* iff its substring occurs, in that order.
C3_FirstDeclaredPatternWins ==
    pc = "done" =>
        LET combined == Lower(arg.host \o arg.path)
            hits == {ck \in {<<c, k>> : c \in 1..7, k \in 1..9} :
                        ck[2] <= Len(C3_Patterns[ck[1]]) /\ C3_Hit(ck[1], ck[2], combined)}
        IN  IF hits # {}
            THEN \E ck \in hits :
                    /\ \A o \in hits \ {ck} : C3_Before(ck[1], ck[2], o[1], o[2])
                    /\ res = [category |-> C3_Order[ck[1]],
                              subcategory |-> C3_Patterns[ck[1]][ck[2]],
                              notes |-> <<>>]
            ELSE res = [category |-> "generic", subcategory |-> <<>>,
                        notes |-> SelectSeq(<<WidgetNote, TrackingNote, BundleNote>>,
                                            LAMBDA n : C3_Note(n, combined))]

\* a host + path with patterns of two categories has been classified by the
\* one declared first
C3_Witness ==
    /\ pc = "done"
    /\ Contains(Lower(arg.host \o arg.path), <<"s","t","r","i","p","e",".","c","o","m">>)
    /\ Contains(Lower(arg.host \o arg.path), <<"s","t","a","t","i","c",".">>)
    /\ res.category = "cdn/library"

----------------------------------------------------------------------------
\* Properties of is_first_party (specification SpecParty).

\* the primary domain lower-cased, without its leading dots
C4_Domain(pd) == SubSeq(Lower(pd), FirstOf(pd, DomainChars \ {"."}, 1), Len(pd))

\* C4 as stated: false when either argument is empty; otherwise true iff the
\* host equals the normalized primary domain exactly or ends with '.'
\* followed by it.
C4_HostComparedAsGiven ==
    pc = "done" =>
        res = (/\ arg.host # <<>>
               /\ arg.primary_domain # <<>>
               /\ \/ arg.host = C4_Domain(arg.primary_domain)
                  \/ EndsWith(arg.host, <<".">> \o C4_Domain(arg.primary_domain)))

\* C4 as amended: false when either argument is empty; otherwise true iff the
\* lower-cased host is the normalized primary domain, or is some text, a '.',
\* and then the normalized primary domain.
C4_HostComparedLowerCased ==
    pc = "done" =>
        res = (/\ arg.host # <<>>
               /\ arg.primary_domain # <<>>
               /\ \E k \in 0..Len(arg.host) :
                    /\ Lower(SubSeq(arg.host, k + 1, Len(arg.host)))
                            = C4_Domain(arg.primary_domain)
                    /\ (k = 0 \/ arg.host[k] = "."))

\* an upper-case subdomain has been found first-party, and a host that only
\* ends with the letters of the primary domain has not
C4_Witness ==
    /\ pc = "done"
    /\ \/ /\ res
          /\ arg.host # Lower(arg.host)
          /\ Len(arg.host) > Len(C4_Domain(arg.primary_domain))
       \/ /\ ~res
          /\ arg.primary_domain # <<>>
          /\ arg.host # <<>>
          /\ EndsWith(arg.host, arg.primary_domain)

----------------------------------------------------------------------------
\* Properties of main (specification SpecMain).

StripMdSuffix(p) == IF EndsWith(p, <<".","m","d">>) THEN SubSeq(p, 1, Len(p) - 3) ELSE p

\* C9: the base name of the two report files is the prefix without a literal
\* trailing '.md', and the prefix itself when it does not end in '.md'.
C9_BaseNameStripsLiteralSuffix ==
    pc = "done" =>
        res = [summary |-> StripMdSuffix(arg) \o <<"_","s","u","m","m","a","r","y",".","m","d">>,
               inventory |-> StripMdSuffix(arg) \o <<"_","i","n","v","e","n","t","o","r","y",".","m","d">>]

====
